---- MODULE Spec2Model ----
(***************************************************************************)
(* The EdgeX collector of netdata's python.d plugin (edgex.chart.py).      *)
(* Service._get_data starts one thread per enabled entry of self.methods,  *)
(* every thread fetches one URL, parses the body and puts one dict on a    *)
(* shared Queue; _get_data joins the threads in launch order, dequeues one *)
(* dict per join, merges it with dict.update and returns `result or None`. *)
(*                                                                         *)
(* Strings that the code inspects (URLs, ports, hosts, integer bodies) are *)
(* sequences of one-character strings, so that `x in url` and int(raw) are *)
(* computed.  A dict is a function from key names to numbers.              *)
(***************************************************************************)
EXTENDS Integers, Sequences, FiniteSets, TLC

(***************************************************************************)
(* Bounds of the explored inputs.                                          *)
(***************************************************************************)
\* largest number of elements of a device-list array
MaxDevices == 1
\* the endpoints answer independently of each other, each with any of its
\* bodies, in the configurations that start at most MaxUnits threads; the
\* larger configurations are explored with the platform in one condition
MaxUnits == 3

(***************************************************************************)
(* Strings                                                                 *)
(***************************************************************************)
Digits == <<"0", "1", "2", "3", "4", "5", "6", "7", "8", "9">>

\* Python's `sub in s` for strings
Contains(sub, s) ==
    \E k \in 0..(Len(s) - Len(sub)) : SubSeq(s, k + 1, k + Len(sub)) = sub

IsDigit(c) == \E d \in 1..10 : Digits[d] = c

DigitValue(c) == (CHOOSE d \in 1..10 : Digits[d] = c) - 1

RECURSIVE DecimalValue(_)
DecimalValue(s) ==
    IF s = << >> THEN 0
    ELSE 10 * DecimalValue(SubSeq(s, 1, Len(s) - 1)) + DigitValue(s[Len(s)])

\* int(raw) of a text body: [raised, value]; a body that is not a run of
\* decimal digits raises ValueError
PyInt(s) ==
    IF s # << >> /\ \A k \in 1..Len(s) : IsDigit(s[k])
    THEN [raised |-> FALSE, value |-> DecimalValue(s)]
    ELSE [raised |-> TRUE, value |-> 0]

(***************************************************************************)
(* Dicts                                                                   *)
(***************************************************************************)
EmptyDict == [k \in {} |-> 0]

\* data[key] = value
SetItem(d, key, value) ==
    [k \in DOMAIN d \cup {key} |-> IF k = key THEN value ELSE d[k]]

\* a.update(b): the keys of b replace those of a
DictUpdate(a, b) ==
    [k \in DOMAIN a \cup DOMAIN b |-> IF k \in DOMAIN b THEN b[k] ELSE a[k]]

(***************************************************************************)
(* Configuration: Service.__init__                                         *)
(***************************************************************************)
MethodCount == 7
Services == {"support_logging", "core_data", "core_metadata", "core_command"}

DefaultProtocol == <<"h", "t", "t", "p">>
DefaultHost == <<"l", "o", "c", "a", "l", "h", "o", "s", "t">>
DefaultPorts ==
    [support_logging |-> <<"4", "8", "0", "6", "1">>,
     core_data       |-> <<"4", "8", "0", "8", "0">>,
     core_metadata   |-> <<"4", "8", "0", "8", "1">>,
     core_command    |-> <<"4", "8", "0", "8", "2">>]

\* a host value a job's configuration may set instead of the default
OtherHost == <<"e", "v", "e", "n", "t", "h", "u", "b">>

\* port_logging / port_data / port_metadata / port_command values a job's
\* configuration may set instead of the defaults
OtherPorts ==
    [support_logging |-> <<"8", "0", "6", "1">>,
     core_data       |-> <<"8", "0">>,
     core_metadata   |-> <<"8", "0", "8", "1">>,
     core_command    |-> <<"8", "0", "8", "2">>]

\* the explored (host, ports) settings: the defaults, another host, other ports
Deployments ==
    {[host |-> DefaultHost, ports |-> DefaultPorts],
     [host |-> OtherHost, ports |-> DefaultPorts],
     [host |-> DefaultHost, ports |-> OtherPorts]}

\* self.configuration as far as the module reads it; the three flags are
\* events_per_second, number_of_devices and metrics
Configurations ==
    {[protocol |-> DefaultProtocol, host |-> d.host, ports |-> d.ports,
      events_per_second |-> e, number_of_devices |-> n, metrics |-> m] :
        d \in Deployments, e \in BOOLEAN, n \in BOOLEAN, m \in BOOLEAN}

\* self.url
BaseUrl(c) == c.protocol \o <<":", "/", "/">> \o c.host

\* self.url_core_data, self.url_core_metadata, ... of init_urls
ServiceUrl(c, service) ==
    BaseUrl(c) \o <<":">> \o c.ports[service]
        \o <<"/", "a", "p", "i", "/", "v", "1", "/">>

init_urls(c) == [s \in Services |-> ServiceUrl(c, s)]

\* self.methods: METHODS(get_data, url, run) in the order of the list
init_methods(c) ==
    LET u == init_urls(c) IN
    << [get_data |-> "_get_core_throughput_events", url |-> u.core_data,
        run |-> c.events_per_second],
       [get_data |-> "_get_core_throughput_readings", url |-> u.core_data,
        run |-> c.events_per_second],
       [get_data |-> "_get_device_info", url |-> u.core_metadata,
        run |-> c.number_of_devices],
       [get_data |-> "_get_metrics_data", url |-> u.core_metadata,
        run |-> c.metrics],
       [get_data |-> "_get_metrics_data", url |-> u.core_data,
        run |-> c.metrics],
       [get_data |-> "_get_metrics_data", url |-> u.core_command,
        run |-> c.metrics],
       [get_data |-> "_get_metrics_data", url |-> u.support_logging,
        run |-> c.metrics] >>

(***************************************************************************)
(* What an endpoint answers: the outcome of self._get_raw_data(url).       *)
(*   kind "none"   : the fetch failed, _get_raw_data returned None         *)
(*   kind "text"   : a body that is the characters `text` (maybe empty)    *)
(*   kind "array"  : a body that is a JSON array of `n` elements           *)
(*   kind "object" : a body that is a JSON object with the top-level keys  *)
(*                   `keys`, whose "Memory" member holds the dict `mem`    *)
(***************************************************************************)
MemoryKeys == {"Alloc", "Mallocs", "Frees", "LiveObjects"}

NoneRaw == [kind |-> "none", text |-> << >>, n |-> 0, keys |-> {}, mem |-> EmptyDict]
TextRaw(s) == [kind |-> "text", text |-> s, n |-> 0, keys |-> {}, mem |-> EmptyDict]
ArrayRaw(n) == [kind |-> "array", text |-> << >>, n |-> n, keys |-> {}, mem |-> EmptyDict]
ObjectRaw(keys, mem) == [kind |-> "object", text |-> << >>, n |-> 0, keys |-> keys, mem |-> mem]

\* `not raw`: None and the empty body are false
Falsy(raw) == raw.kind = "none" \/ (raw.kind = "text" /\ raw.text = << >>)

\* int(raw): only a text body of decimal digits converts
IntOf(raw) ==
    IF raw.kind = "text" THEN PyInt(raw.text) ELSE [raised |-> TRUE, value |-> 0]

\* json.loads(raw): a text body is JSON only when it is a number; the
\* result is [raised, type, n, keys, mem]
JsonLoads(raw) ==
    CASE raw.kind = "array" ->
            [raised |-> FALSE, type |-> "list", n |-> raw.n, keys |-> {}, mem |-> EmptyDict]
      [] raw.kind = "object" ->
            [raised |-> FALSE, type |-> "dict", n |-> 0, keys |-> raw.keys, mem |-> raw.mem]
      [] OTHER ->
            IF PyInt(raw.text).raised
            THEN [raised |-> TRUE, type |-> "none", n |-> 0, keys |-> {}, mem |-> EmptyDict]
            ELSE [raised |-> FALSE, type |-> "int", n |-> PyInt(raw.text).value,
                  keys |-> {}, mem |-> EmptyDict]

\* len(parsed): TypeError for a number
PyLen(parsed) ==
    CASE parsed.type = "list" -> [raised |-> FALSE, value |-> parsed.n]
      [] parsed.type = "dict" -> [raised |-> FALSE, value |-> Cardinality(parsed.keys)]
      [] OTHER -> [raised |-> TRUE, value |-> 0]

\* parsed["Memory"][key]: TypeError unless parsed is a dict, KeyError when
\* "Memory" or the key is missing
MemoryItem(parsed, key) ==
    IF parsed.type = "dict" /\ "Memory" \in parsed.keys /\ key \in DOMAIN parsed.mem
    THEN [raised |-> FALSE, value |-> parsed.mem[key]]
    ELSE [raised |-> TRUE, value |-> 0]

(***************************************************************************)
(* The source routines.  Each yields [raised, puts, data]: whether an      *)
(* exception left the routine, the dicts it put on the queue, and its      *)
(* local `data` at that moment.                                            *)
(***************************************************************************)
Outcome(raised, puts, data) == [raised |-> raised, puts |-> puts, data |-> data]

_get_core_throughput_readings(c, url, raw) ==
    IF Falsy(raw) THEN Outcome(FALSE, <<EmptyDict>>, EmptyDict)
    ELSE IF IntOf(raw).raised THEN Outcome(TRUE, << >>, EmptyDict)
    ELSE LET d1 == SetItem(EmptyDict, "readings", IntOf(raw).value)
             d2 == IF Contains(<<"e", "v", "e", "n", "t">>, url)
                   THEN SetItem(d1, "events", IntOf(raw).value)
                   ELSE d1
         IN  Outcome(FALSE, <<d2>>, d2)

\* as _get_core_throughput_events, but `if not raw: return` without the put
events_return_without_put(c, url, raw) ==
    IF Falsy(raw) THEN Outcome(FALSE, << >>, EmptyDict)
    ELSE IF IntOf(raw).raised THEN Outcome(TRUE, << >>, EmptyDict)
    ELSE LET d1 == SetItem(EmptyDict, "events", IntOf(raw).value)
         IN  Outcome(FALSE, <<d1>>, d1)

_get_core_throughput_events(c, url, raw) ==
    IF Falsy(raw) THEN Outcome(FALSE, <<EmptyDict>>, EmptyDict)
    ELSE IF IntOf(raw).raised THEN Outcome(TRUE, << >>, EmptyDict)
    ELSE LET d1 == SetItem(EmptyDict, "events", IntOf(raw).value)
         IN  Outcome(FALSE, <<d1>>, d1)

\* as _get_device_info, but the count is the last index: len(parsed) - 1
device_info_last_index(c, url, raw) ==
    IF Falsy(raw) THEN Outcome(FALSE, <<EmptyDict>>, EmptyDict)
    ELSE IF JsonLoads(raw).raised THEN Outcome(TRUE, << >>, EmptyDict)
    ELSE IF PyLen(JsonLoads(raw)).raised THEN Outcome(TRUE, << >>, EmptyDict)
    ELSE LET d1 == SetItem(EmptyDict, "registered_devices",
                           PyLen(JsonLoads(raw)).value - 1)
         IN  Outcome(FALSE, <<d1>>, d1)

_get_device_info(c, url, raw) ==
    IF Falsy(raw) THEN Outcome(FALSE, <<EmptyDict>>, EmptyDict)
    ELSE IF JsonLoads(raw).raised THEN Outcome(TRUE, << >>, EmptyDict)
    ELSE IF PyLen(JsonLoads(raw)).raised THEN Outcome(TRUE, << >>, EmptyDict)
    ELSE LET d1 == SetItem(EmptyDict, "registered_devices", PyLen(JsonLoads(raw)).value)
         IN  Outcome(FALSE, <<d1>>, d1)

\* as MetricsAssignments, but one key is misspelt: data['core_data_mallocs']
metrics_assignments_typo(service) ==
    IF service = "core_data" THEN
        << <<"core_data_alloc", "Alloc">>, <<"core_data_mallocs", "Mallocs">>,
           <<"core_data_frees", "Frees">>, <<"core_data_live_objects", "LiveObjects">> >>
    ELSE IF service = "core_metadata" THEN
        << <<"core_metadata_alloc", "Alloc">>, <<"core_metadata_malloc", "Mallocs">>,
           <<"core_metadata_frees", "Frees">>,
           <<"core_metadata_live_objects", "LiveObjects">> >>
    ELSE IF service = "core_command" THEN
        << <<"core_command_alloc", "Alloc">>, <<"core_command_malloc", "Mallocs">>,
           <<"core_command_frees", "Frees">> >>
    ELSE IF service = "support_logging" THEN
        << <<"support_logging_alloc", "Alloc">>, <<"support_logging_malloc", "Mallocs">>,
           <<"support_logging_frees", "Frees">>,
           <<"support_logging_live_objects", "LiveObjects">> >>
    ELSE << >>

\* the assignments of one branch of _get_metrics_data, in program order
MetricsAssignments(service) ==
    IF service = "core_data" THEN
        << <<"core_data_alloc", "Alloc">>, <<"core_data_malloc", "Mallocs">>,
           <<"core_data_frees", "Frees">>, <<"core_data_live_objects", "LiveObjects">> >>
    ELSE IF service = "core_metadata" THEN
        << <<"core_metadata_alloc", "Alloc">>, <<"core_metadata_malloc", "Mallocs">>,
           <<"core_metadata_frees", "Frees">>,
           <<"core_metadata_live_objects", "LiveObjects">> >>
    ELSE IF service = "core_command" THEN
        << <<"core_command_alloc", "Alloc">>, <<"core_command_malloc", "Mallocs">>,
           <<"core_command_frees", "Frees">> >>
    ELSE IF service = "support_logging" THEN
        << <<"support_logging_alloc", "Alloc">>, <<"support_logging_malloc", "Mallocs">>,
           <<"support_logging_frees", "Frees">>,
           <<"support_logging_live_objects", "LiveObjects">> >>
    ELSE << >>

\* the if / elif chain on `self.edgex_ports[...] in url`
MetricsBranch(c, url) ==
    IF Contains(c.ports.core_data, url) THEN "core_data"
    ELSE IF Contains(c.ports.core_metadata, url) THEN "core_metadata"
    ELSE IF Contains(c.ports.core_command, url) THEN "core_command"
    ELSE IF Contains(c.ports.support_logging, url) THEN "support_logging"
    ELSE "none"

\* run the assignments from the k-th on; the first missing key raises and
\* leaves `data` as it is by then
RECURSIVE RunAssignments(_, _, _, _)
RunAssignments(assignments, k, parsed, data) ==
    IF k > Len(assignments) THEN [raised |-> FALSE, data |-> data]
    ELSE IF MemoryItem(parsed, assignments[k][2]).raised
         THEN [raised |-> TRUE, data |-> data]
         ELSE RunAssignments(assignments, k + 1, parsed,
                  SetItem(data, assignments[k][1],
                          MemoryItem(parsed, assignments[k][2]).value))

_get_metrics_data(c, url, raw) ==
    IF Falsy(raw) THEN Outcome(FALSE, <<EmptyDict>>, EmptyDict)
    ELSE IF JsonLoads(raw).raised THEN Outcome(TRUE, << >>, EmptyDict)
    ELSE LET r == RunAssignments(MetricsAssignments(MetricsBranch(c, url)), 1,
                                 JsonLoads(raw), EmptyDict)
         IN  IF r.raised THEN Outcome(TRUE, << >>, r.data)
             ELSE Outcome(FALSE, <<r.data>>, r.data)

\* method(*args) for an entry of self.methods
CallMethod(c, m, raw) ==
    CASE m.get_data = "_get_core_throughput_events" ->
            _get_core_throughput_events(c, m.url, raw)
      [] m.get_data = "_get_core_throughput_readings" ->
            _get_core_throughput_readings(c, m.url, raw)
      [] m.get_data = "_get_device_info" -> _get_device_info(c, m.url, raw)
      [] OTHER -> _get_metrics_data(c, m.url, raw)

\* as get_survive_any, but the handler only logs the error
survive_without_put(outcome) == outcome.puts

\* the wrapper w of get_survive_any: the dicts the unit puts on the queue,
\* in order; an exception adds queue.put(dict())
get_survive_any(outcome) ==
    IF outcome.raised THEN outcome.puts \o <<EmptyDict>> ELSE outcome.puts

\* everything thread `i` puts on the queue when the fetch yields `raw`
UnitPuts(c, ms, i, raw) == get_survive_any(CallMethod(c, ms[i], raw))

(***************************************************************************)
(* The platform: what each endpoint may answer                             *)
(***************************************************************************)
CountBodies ==
    {NoneRaw, TextRaw(<< >>), TextRaw(<<"0">>), TextRaw(<<"7">>),
     TextRaw(<<"4", "2">>), TextRaw(<<"4", "x">>)}

DeviceBodies ==
    {NoneRaw, TextRaw(<<"n", "o", "t", "-", "j", "s", "o", "n">>), TextRaw(<<"5">>)}
        \cup {ArrayRaw(n) : n \in 0..MaxDevices}

\* the Memory member with the keys `ks`: Alloc a, Mallocs a + 1, Frees a + 2,
\* LiveObjects a + 3
MemoryDict(ks, a) ==
    [k \in ks |-> CASE k = "Alloc" -> a [] k = "Mallocs" -> a + 1
                    [] k = "Frees" -> a + 2 [] OTHER -> a + 3]

MetricsBodies ==
    {NoneRaw, TextRaw(<<"{">>),
     ObjectRaw({"Memory"}, MemoryDict(MemoryKeys \ {"LiveObjects"}, 100)),
     ObjectRaw({"Memory"}, MemoryDict(MemoryKeys, 100)),
     ObjectRaw({"Memory"}, MemoryDict(MemoryKeys, 200))}

Bodies(m) ==
    CASE m.get_data \in {"_get_core_throughput_events", "_get_core_throughput_readings"} ->
            CountBodies
      [] m.get_data = "_get_device_info" -> DeviceBodies
      [] OTHER -> MetricsBodies

\* a well-formed answer of the i-th entry's endpoint
HealthyBody(ms, i) ==
    CASE ms[i].get_data = "_get_core_throughput_events" -> TextRaw(<<"4", "2">>)
      [] ms[i].get_data = "_get_core_throughput_readings" -> TextRaw(<<"7">>)
      [] ms[i].get_data = "_get_device_info" -> ArrayRaw(MaxDevices)
      [] OTHER -> ObjectRaw({"Memory"}, MemoryDict(MemoryKeys, 100 * (1 + (i % 2))))

\* an answer of the i-th entry's endpoint that its parser rejects
GarbledBody(ms, i) ==
    CASE ms[i].get_data \in {"_get_core_throughput_events",
                             "_get_core_throughput_readings"} -> TextRaw(<<"4", "x">>)
      [] ms[i].get_data = "_get_device_info" ->
            TextRaw(<<"n", "o", "t", "-", "j", "s", "o", "n">>)
      [] OTHER -> ObjectRaw({"Memory"}, MemoryDict(MemoryKeys \ {"LiveObjects"}, 100))

\* number of threads one call starts
UnitCount(ms) == Cardinality({i \in 1..Len(ms) : ms[i].run})

\* a platform in which the endpoints are by turns unreachable, well and
\* answering a body their parser rejects
Patchy(ms) ==
    [i \in 1..Len(ms) |->
        CASE i % 3 = 1 -> {NoneRaw}
          [] i % 3 = 2 -> {HealthyBody(ms, i)}
          [] OTHER -> {GarbledBody(ms, i)}]

\* the platform in one condition: every endpoint well, every fetch failing,
\* every body malformed, or patchy
Conditions(ms) ==
    {[i \in 1..Len(ms) |-> {HealthyBody(ms, i)}],
     [i \in 1..Len(ms) |-> {NoneRaw}],
     [i \in 1..Len(ms) |-> {GarbledBody(ms, i)}],
     Patchy(ms)}

\* per entry of self.methods, the bodies its fetch may return
Platforms(ms) ==
    Conditions(ms) \cup
        (IF UnitCount(ms) <= MaxUnits THEN {[i \in 1..Len(ms) |-> Bodies(ms[i])]} ELSE {})

(***************************************************************************)
(* State                                                                   *)
(***************************************************************************)
VARIABLES
    cfg,        \* self.configuration
    answers,    \* the platform: per entry, the bodies its fetch may return
    methods,    \* self.methods
    pc,         \* where _get_data is: idle, launch, join, get, returned
    idx,        \* position of `for method in self.methods`
    threads,    \* the local list `threads`: indices into self.methods
    jn,         \* position of `for thread in threads`
    unit,       \* per entry of self.methods, its thread of this call:
                \*   idle (none), started, reported (put done), dead
    resp,       \* per entry, what its fetch returned in this call
    queue,      \* the local Queue: <<[src, frag], ...>>, oldest first
    result,     \* the local dict `result`
    ret,        \* what the call handed to its caller
    puts,       \* per entry, number of queue.put calls of its thread
    joins,      \* per entry, number of times its thread was joined
    merged,     \* per entry, number of times its dict was merged
    returns,    \* number of times the current call has returned
    last        \* what the previous call handed to the caller, where the
                \*   caller keeps it

vars == <<cfg, answers, methods, pc, idx, threads, jn, unit, resp, queue, result, ret,
          puts, joins, merged, returns, last>>

Indices == 1..MethodCount
NoReturn == [kind |-> "pending", value |-> EmptyDict]

\* the locals of a call that has not started
Fresh ==
    /\ idx = 1
    /\ threads = << >>
    /\ jn = 1
    /\ unit = [i \in Indices |-> "idle"]
    /\ resp = [i \in Indices |-> NoneRaw]
    /\ queue = << >>
    /\ result = EmptyDict
    /\ ret = NoReturn
    /\ puts = [i \in Indices |-> 0]
    /\ joins = [i \in Indices |-> 0]
    /\ merged = [i \in Indices |-> 0]
    /\ returns = 0

Init ==
    /\ cfg \in Configurations
    /\ methods = init_methods(cfg)
    /\ answers \in Platforms(methods)
    /\ pc = "idle"
    /\ Fresh
    /\ last = NoReturn

(***************************************************************************)
(* Service._get_data                                                       *)
(***************************************************************************)
\* the caller invokes _get_data: threads = list(), queue = Queue(), result = {}
GetData ==
    /\ pc = "idle"
    /\ pc' = "launch"
    /\ threads' = << >>
    /\ queue' = << >>
    /\ result' = EmptyDict
    /\ UNCHANGED <<cfg, answers, methods, last, idx, jn, unit, resp, ret, puts, joins, merged,
                   returns>>

\* as Launch, but without `if not method['run']: continue`
launch_all ==
    /\ pc = "launch"
    /\ idx <= Len(methods)
    /\ unit' = [unit EXCEPT ![idx] = "started"]
    /\ threads' = Append(threads, idx)
    /\ idx' = idx + 1
    /\ pc' = IF idx = Len(methods) THEN "join" ELSE "launch"
    /\ UNCHANGED <<cfg, answers, methods, last, jn, resp, queue, result, ret, puts, joins, merged,
                   returns>>

\* one iteration of `for method in self.methods`
Launch ==
    /\ pc = "launch"
    /\ idx <= Len(methods)
    /\ IF methods[idx].run
       THEN /\ unit' = [unit EXCEPT ![idx] = "started"]
            /\ threads' = Append(threads, idx)
       ELSE UNCHANGED <<unit, threads>>
    /\ idx' = idx + 1
    /\ pc' = IF idx = Len(methods) THEN "join" ELSE "launch"
    /\ UNCHANGED <<cfg, answers, methods, last, jn, resp, queue, result, ret, puts, joins, merged,
                   returns>>

\* A thread, from start to end: w(self, queue, url) fetches, parses and puts.
\* The put is the thread's only access to shared state and its last
\* statement, so the thread is one step.
append_puts(q, i, frags) ==
    q \o [k \in 1..Len(frags) |-> [src |-> i, frag |-> frags[k]]]

\* as UnitRun, but the thread writes its dict into `result` itself
unit_updates_result(i) ==
    /\ unit[i] = "started"
    /\ \E raw \in answers[i] :
          /\ resp' = [resp EXCEPT ![i] = raw]
          /\ queue' = append_puts(queue, i, UnitPuts(cfg, methods, i, raw))
          /\ puts' = [puts EXCEPT ![i] = @ + Len(UnitPuts(cfg, methods, i, raw))]
          /\ result' = IF UnitPuts(cfg, methods, i, raw) = << >> THEN result
                       ELSE DictUpdate(result, UnitPuts(cfg, methods, i, raw)[1])
    /\ unit' = [unit EXCEPT ![i] = "dead"]
    /\ UNCHANGED <<cfg, answers, methods, last, pc, idx, threads, jn, ret, joins, merged,
                   returns>>

UnitRun(i) ==
    /\ unit[i] = "started"
    /\ \E raw \in answers[i] :
          /\ resp' = [resp EXCEPT ![i] = raw]
          /\ queue' = append_puts(queue, i, UnitPuts(cfg, methods, i, raw))
          /\ puts' = [puts EXCEPT ![i] = @ + Len(UnitPuts(cfg, methods, i, raw))]
    /\ unit' = [unit EXCEPT ![i] = "dead"]
    /\ UNCHANGED <<cfg, answers, methods, last, pc, idx, threads, jn, result, ret, joins, merged,
                   returns>>

\* The same thread in two steps: up to and with its put, the thread then
\* being alive with nothing left to do, and its end.
UnitPut(i) ==
    /\ unit[i] = "started"
    /\ \E raw \in answers[i] :
          /\ resp' = [resp EXCEPT ![i] = raw]
          /\ queue' = append_puts(queue, i, UnitPuts(cfg, methods, i, raw))
          /\ puts' = [puts EXCEPT ![i] = @ + Len(UnitPuts(cfg, methods, i, raw))]
    /\ unit' = [unit EXCEPT ![i] = "reported"]
    /\ UNCHANGED <<cfg, answers, methods, last, pc, idx, threads, jn, result, ret, joins, merged,
                   returns>>

UnitExit(i) ==
    /\ unit[i] = "reported"
    /\ unit' = [unit EXCEPT ![i] = "dead"]
    /\ UNCHANGED <<cfg, answers, methods, last, pc, idx, threads, jn, resp, queue, result, ret,
                   puts, joins, merged, returns>>

\* as Join, but `thread.join()` is left out of the loop
join_without_wait ==
    /\ pc = "join"
    /\ jn <= Len(threads)
    /\ joins' = [joins EXCEPT ![threads[jn]] = @ + 1]
    /\ pc' = "get"
    /\ UNCHANGED <<cfg, answers, methods, last, idx, threads, jn, unit, resp, queue, result, ret,
                   puts, merged, returns>>

\* as Join, but every iteration joins the first thread: threads[0].join()
join_first_thread ==
    /\ pc = "join"
    /\ jn <= Len(threads)
    /\ unit[threads[1]] = "dead"
    /\ joins' = [joins EXCEPT ![threads[1]] = @ + 1]
    /\ pc' = "get"
    /\ UNCHANGED <<cfg, answers, methods, last, idx, threads, jn, unit, resp, queue, result, ret,
                   puts, merged, returns>>

\* thread.join()
Join ==
    /\ pc = "join"
    /\ jn <= Len(threads)
    /\ unit[threads[jn]] = "dead"
    /\ joins' = [joins EXCEPT ![threads[jn]] = @ + 1]
    /\ pc' = "get"
    /\ UNCHANGED <<cfg, answers, methods, last, idx, threads, jn, unit, resp, queue, result, ret,
                   puts, merged, returns>>

\* result.update(queue.get()): get blocks while the queue is empty
Get ==
    /\ pc = "get"
    /\ queue # << >>
    /\ result' = DictUpdate(result, Head(queue).frag)
    /\ merged' = [merged EXCEPT ![Head(queue).src] = @ + 1]
    /\ queue' = Tail(queue)
    /\ jn' = jn + 1
    /\ pc' = "join"
    /\ UNCHANGED <<cfg, answers, methods, last, idx, threads, unit, resp, ret, puts, joins, returns>>

\* as ReturnValue, but `result if any(result.values()) else None`
none_when_all_zero(r) ==
    IF \A k \in DOMAIN r : r[k] = 0 THEN [kind |-> "None", value |-> EmptyDict]
    ELSE [kind |-> "dict", value |-> r]

\* return result or None
ReturnValue(r) ==
    IF r = EmptyDict THEN [kind |-> "None", value |-> EmptyDict]
    ELSE [kind |-> "dict", value |-> r]

\* as Return, but the loop over `threads` stops one iteration early
return_before_last_thread ==
    /\ pc = "join"
    /\ jn >= Len(threads)
    /\ ret' = ReturnValue(result)
    /\ returns' = returns + 1
    /\ pc' = "returned"
    /\ UNCHANGED <<cfg, answers, methods, last, idx, threads, jn, unit, resp, queue, result,
                   puts, joins, merged>>

Return ==
    /\ pc = "join"
    /\ jn > Len(threads)
    /\ ret' = ReturnValue(result)
    /\ returns' = returns + 1
    /\ pc' = "returned"
    /\ UNCHANGED <<cfg, answers, methods, last, idx, threads, jn, unit, resp, queue, result, puts,
                   joins, merged>>

\* the caller has taken the value; the locals of the call are gone
Finish ==
    /\ pc = "returned"
    /\ pc' = "idle"
    /\ idx' = 1
    /\ threads' = << >>
    /\ jn' = 1
    /\ unit' = [i \in Indices |-> "idle"]
    /\ resp' = [i \in Indices |-> NoneRaw]
    /\ queue' = << >>
    /\ result' = EmptyDict
    /\ ret' = NoReturn
    /\ puts' = [i \in Indices |-> 0]
    /\ joins' = [i \in Indices |-> 0]
    /\ merged' = [i \in Indices |-> 0]
    /\ returns' = 0
    /\ UNCHANGED <<cfg, answers, methods, last, last>>

Next ==
    \/ GetData
    \/ Launch
    \/ \E i \in Indices : UnitRun(i)
    \/ Join
    \/ Get
    \/ Return
    \/ Finish

Spec == Init /\ [][Next]_vars

\* a step of the running call, by the calling thread or by one of its units
CallStep ==
    \/ Launch
    \/ Join
    \/ Get
    \/ Return
    \/ \E i \in Indices : UnitRun(i)

\* The interpreter keeps scheduling the threads that can run, and every fetch
\* returns (UrlService gives each request a timeout): while some thread of
\* the call can take a step, one does.  Nothing obliges the caller to call
\* _get_data again.
Fairness == WF_vars(CallStep)

\* termination is explored with the default host and ports on a patchy
\* platform, for every setting of the three flags
LiveInit ==
    /\ Init
    /\ cfg.host = DefaultHost
    /\ cfg.ports = DefaultPorts
    /\ answers = Patchy(methods)

LiveSpec == LiveInit /\ [][Next]_vars /\ Fairness

(***************************************************************************)
(* Successive calls                                                        *)
(***************************************************************************)
\* The caller has taken the value and keeps it until the next one.  The
\* objects the call made (the list, the queue, the dict) stay where they
\* lay; its threads have no name any more.
Keep ==
    /\ pc = "returned"
    /\ pc' = "idle"
    /\ last' = ret
    /\ ret' = NoReturn
    /\ idx' = 1
    /\ jn' = 1
    /\ unit' = [i \in Indices |-> "idle"]
    /\ resp' = [i \in Indices |-> NoneRaw]
    /\ puts' = [i \in Indices |-> 0]
    /\ joins' = [i \in Indices |-> 0]
    /\ merged' = [i \in Indices |-> 0]
    /\ returns' = 0
    /\ UNCHANGED <<cfg, answers, methods, threads, queue, result>>

\* a platform in which, at each call, every endpoint is either unreachable
\* or well
Flaky(ms) == [i \in 1..Len(ms) |-> {NoneRaw, HealthyBody(ms, i)}]

\* successive calls are explored in the configurations that start at most
\* MaxUnits threads
CycleInit ==
    /\ cfg \in Configurations
    /\ methods = init_methods(cfg)
    /\ UnitCount(methods) <= MaxUnits
    /\ answers = Flaky(methods)
    /\ pc = "idle"
    /\ Fresh
    /\ last = NoReturn

CycleNext ==
    \/ GetData
    \/ Launch
    \/ \E i \in Indices : UnitPut(i)
    \/ \E i \in Indices : UnitExit(i)
    \/ Join
    \/ Get
    \/ Return
    \/ Keep

CycleSpec == CycleInit /\ [][CycleNext]_vars

(***************************************************************************)
(* A worked cycle                                                          *)
(***************************************************************************)
\* a platform on which event/count answers 42, the device list is an array
\* of three elements, no metrics fetch succeeds, and reading/count answers
\* 7 or is unreachable
ExamplePlatform(ms) ==
    [i \in 1..Len(ms) |->
        CASE ms[i].get_data = "_get_core_throughput_events" -> {TextRaw(<<"4", "2">>)}
          [] ms[i].get_data = "_get_core_throughput_readings" -> {NoneRaw, TextRaw(<<"7">>)}
          [] ms[i].get_data = "_get_device_info" -> {ArrayRaw(3)}
          [] OTHER -> {NoneRaw}]

\* the three flags on, in each deployment
ExampleInit ==
    /\ cfg \in Configurations
    /\ cfg.events_per_second /\ cfg.number_of_devices /\ cfg.metrics
    /\ methods = init_methods(cfg)
    /\ answers = ExamplePlatform(methods)
    /\ pc = "idle"
    /\ Fresh
    /\ last = NoReturn

ExampleSpec == ExampleInit /\ [][Next]_vars

(***************************************************************************)
(* Vocabulary of the properties                                            *)
(***************************************************************************)
\* the entries whose thread this call has started
Launched == {i \in Indices : unit[i] # "idle"}

\* the dicts the thread of entry i puts for the body `raw`
PutsFor(i, raw) == UnitPuts(cfg, methods, i, raw)

\* the dict the finished thread of entry i has reported (an empty one stands
\* for a thread that reported nothing)
Fragment(i) ==
    IF PutsFor(i, resp[i]) = << >> THEN EmptyDict ELSE PutsFor(i, resp[i])[1]

\* the fetch of entry i yielded nothing, or its body could not be parsed
Failed(i) == Falsy(resp[i]) \/ CallMethod(cfg, methods[i], resp[i]).raised

\* the field names entry i can put in a fragment, over all bodies
FieldNames(i) ==
    UNION {UNION {DOMAIN PutsFor(i, raw)[k] : k \in 1..Len(PutsFor(i, raw))} :
              raw \in Bodies(methods[i])}

\* the dicts of the started threads merged in the order of self.methods
RECURSIVE MergeInOrder(_)
MergeInOrder(ths) ==
    IF ths = << >> THEN EmptyDict
    ELSE DictUpdate(MergeInOrder(SubSeq(ths, 1, Len(ths) - 1)), Fragment(ths[Len(ths)]))

\* the dicts of two started threads share a key
Collision ==
    \E i, j \in Launched : i # j /\ DOMAIN Fragment(i) \cap DOMAIN Fragment(j) # {}

(***************************************************************************)
(* C1 (isolation, P1): whatever sources fail and however the threads       *)
(* interleave, the returned snapshot holds, for every started source that  *)
(* did not fail, each field of its dict with the value parsed from its own *)
(* response.                                                               *)
(***************************************************************************)
C1_Isolation ==
    pc = "returned" =>
        \A i \in Launched :
            ~Failed(i) =>
                \A k \in DOMAIN Fragment(i) :
                    k \in DOMAIN ret.value /\ ret.value[k] = Fragment(i)[k]

(***************************************************************************)
(* C2 (liveness, P6): with every fetch returning and the threads scheduled *)
(* fairly, a started call of _get_data reaches its return, and it returns  *)
(* once; the join / get loop never waits for ever on the queue.            *)
(***************************************************************************)
C2_Terminates ==
    /\ [](returns <= 1)
    /\ (pc \in {"launch", "join", "get"}) ~> (pc = "returned" /\ returns = 1)

\* a call over all seven entries has returned
C2_Witness == pc = "returned" /\ Len(threads) = MethodCount /\ returns = 1

(***************************************************************************)
(* C3: every unit reports exactly once.  A thread that has ended has put   *)
(* one dict on the queue, whichever path its routine took (parsed, fetch   *)
(* empty or failed, exception); a thread that has not run has put none.    *)
(***************************************************************************)
C3_ReportsExactlyOnce ==
    \A i \in Indices :
        /\ unit[i] = "dead" => puts[i] = 1
        /\ unit[i] # "dead" => puts[i] = 0

\* a thread whose routine raised has ended, and one whose fetch failed, and
\* one that parsed its body
C3_Witness ==
    /\ \E i \in Launched : unit[i] = "dead" /\ puts[i] = 1
                            /\ CallMethod(cfg, methods[i], resp[i]).raised
    /\ \E i \in Launched : unit[i] = "dead" /\ puts[i] = 1 /\ Falsy(resp[i])
    /\ \E i \in Launched : unit[i] = "dead" /\ puts[i] = 1 /\ ~Failed(i)

(***************************************************************************)
(* C4: _get_data consumes exactly N dicts for N started threads.  No       *)
(* thread is joined twice and no dict merged twice; when the call returns, *)
(* every started thread has been joined once, its dict has been dequeued   *)
(* and merged once (its keys are in the result), as many dicts were        *)
(* dequeued as threads started, and the queue is empty.                    *)
(***************************************************************************)
C4_ConsumesExactlyN ==
    /\ \A i \in Indices : joins[i] <= 1 /\ merged[i] <= 1
    /\ pc = "returned" =>
          /\ Len(threads) = Cardinality(Launched)
          /\ jn - 1 = Len(threads)
          /\ \A i \in Launched :
                /\ joins[i] = 1
                /\ merged[i] = 1
                /\ DOMAIN Fragment(i) \subseteq DOMAIN result
          /\ \A i \in Indices \ Launched : joins[i] = 0 /\ merged[i] = 0
          /\ queue = << >>

\* a call that started all seven threads has returned
C4_Witness ==
    /\ pc = "returned"
    /\ Cardinality(Launched) = MethodCount
    /\ \A i \in Indices : merged[i] = 1

C5_NoPartialFragment ==
    pc = "returned" =>
        \A i \in Launched :
            \/ \A k \in FieldNames(i) :
                  /\ k \in DOMAIN Fragment(i)
                  /\ k \in DOMAIN ret.value
                  /\ ret.value[k] = Fragment(i)[k]
            \/ \A k \in FieldNames(i) : k \notin DOMAIN ret.value

(***************************************************************************)
(* C7 (disjointness, P3): in every configuration, two distinct enabled     *)
(* entries of self.methods cannot put the same field name in their dicts.  *)
(***************************************************************************)
C7_Disjoint ==
    \A i, j \in Indices :
        (i # j /\ methods[i].run /\ methods[j].run) =>
            FieldNames(i) \cap FieldNames(j) = {}

(***************************************************************************)
(* C8 (order independence): for given responses the returned snapshot is   *)
(* the same for every order in which the threads put their dicts; it is    *)
(* the one obtained when they complete in the order they were started.     *)
(***************************************************************************)
C8_OrderIndependent ==
    pc = "returned" => ret = ReturnValue(MergeInOrder(threads))

(***************************************************************************)
(* C9 (failure containment): a started source whose fetch yields nothing   *)
(* or whose body cannot be parsed reports an empty dict, none of its       *)
(* fields is in the snapshot, and the call raises nothing to its caller.   *)
(***************************************************************************)
C9_FailureContained ==
    pc = "returned" =>
        /\ ret.kind # "raise"
        /\ \A i \in Launched :
              Failed(i) =>
                  /\ Fragment(i) = EmptyDict
                  /\ FieldNames(i) \cap DOMAIN ret.value = {}

(***************************************************************************)
(* C10 (a key collision is a hard fault): when the dicts of two started    *)
(* sources share a field name, the call raises to its caller instead of    *)
(* returning a snapshot.                                                   *)
(***************************************************************************)
C10_CollisionIsFault ==
    pc = "returned" => (Collision => ret.kind = "raise")

(***************************************************************************)
(* C11 (no leakage between calls): a call starts with an empty result and  *)
(* an empty queue; every key of the value it returns comes, with its       *)
(* value, from a dict reported by a thread started in that same call; and  *)
(* a field of the previous call's snapshot whose source fails in this call *)
(* is absent from this call's snapshot.                                    *)
(***************************************************************************)
C11_NoLeakage ==
    /\ (pc = "launch" /\ idx = 1) => (result = EmptyDict /\ queue = << >>)
    /\ pc = "returned" =>
          /\ \A k \in DOMAIN ret.value :
                \E i \in Launched :
                    k \in DOMAIN Fragment(i) /\ ret.value[k] = Fragment(i)[k]
          /\ \A i \in Launched :
                Failed(i) =>
                    \A k \in FieldNames(i) \cap DOMAIN last.value : k \notin DOMAIN ret.value

(***************************************************************************)
(* C12 (no thread outlives its call): when _get_data returns, and between  *)
(* calls, every thread it started has ended; the list `threads` of a call  *)
(* holds the threads started in that call, each once, so that a call joins *)
(* no thread of an earlier call, and joins only threads that have ended.   *)
(***************************************************************************)
C12_NoUnitOutlives ==
    /\ pc \in {"returned", "idle"} => \A i \in Indices : unit[i] \in {"idle", "dead"}
    /\ pc \in {"launch", "join", "get", "returned"} =>
          /\ \A k \in 1..Len(threads) : unit[threads[k]] # "idle"
          /\ \A k1, k2 \in 1..Len(threads) : threads[k1] = threads[k2] => k1 = k2
          /\ Len(threads) = Cardinality(Launched)
    /\ \A i \in Indices : joins[i] <= 1 /\ (joins[i] = 1 => unit[i] = "dead")

\* a call that follows another has returned, having started several threads
C12_Witness ==
    /\ pc = "returned"
    /\ last.kind # "pending"
    /\ Cardinality(Launched) >= 2
    /\ \A i \in Launched : unit[i] = "dead" /\ joins[i] = 1

(***************************************************************************)
(* C13 (enabled gating): a call starts one thread per entry of             *)
(* self.methods whose run flag is true, and as many threads as there are   *)
(* such entries; an entry whose run flag is false has no thread, fetches   *)
(* nothing, puts nothing on the queue, has nothing merged, and none of its *)
(* fields is in the snapshot.                                              *)
(***************************************************************************)
C13_EnabledGating ==
    /\ \A i \in Indices : unit[i] # "idle" => methods[i].run
    /\ \A i \in Indices :
          ~methods[i].run =>
              /\ unit[i] = "idle"
              /\ resp[i] = NoneRaw
              /\ puts[i] = 0
              /\ merged[i] = 0
              /\ \A k \in 1..Len(queue) : queue[k].src # i
    /\ pc \in {"join", "get", "returned"} =>
          /\ Len(threads) = UnitCount(methods)
          /\ Launched = {i \in Indices : methods[i].run}
          /\ \A k1, k2 \in 1..Len(threads) : threads[k1] = threads[k2] => k1 = k2
    /\ pc = "returned" =>
          \A i \in Indices :
              ~methods[i].run => FieldNames(i) \cap DOMAIN ret.value = {}

\* a call in a configuration with entries switched off and entries switched
\* on has returned a snapshot
C13_Witness ==
    /\ pc = "returned"
    /\ ret.kind = "dict"
    /\ \E i \in Indices : ~methods[i].run
    /\ \E i \in Indices : methods[i].run /\ merged[i] = 1 /\ ~Failed(i)

(***************************************************************************)
(* C14 (runtime-metrics mapping): for every service S and every setting of *)
(* the host and the four ports, the _get_metrics_data entry that is given  *)
(* S's URL, answered a payload whose Memory holds Alloc, Mallocs, Frees    *)
(* and LiveObjects, puts exactly the dict S_alloc = Alloc, S_malloc =      *)
(* Mallocs, S_frees = Frees and, except for core_command, S_live_objects = *)
(* LiveObjects: keys with the name of S and of no other service.           *)
(***************************************************************************)
C14_MetricsMapping ==
    \A i \in Indices :
        \A S \in Services :
            (methods[i].get_data = "_get_metrics_data" /\ methods[i].url = init_urls(cfg)[S]) =>
                \A raw \in MetricsBodies :
                    (raw.kind = "object" /\ DOMAIN raw.mem = MemoryKeys) =>
                        UnitPuts(cfg, methods, i, raw) =
                            << [k \in {S \o "_alloc", S \o "_malloc", S \o "_frees"}
                                      \cup (IF S = "core_command" THEN {}
                                            ELSE {S \o "_live_objects"}) |->
                                   CASE k = S \o "_alloc" -> raw.mem["Alloc"]
                                     [] k = S \o "_malloc" -> raw.mem["Mallocs"]
                                     [] k = S \o "_frees" -> raw.mem["Frees"]
                                     [] OTHER -> raw.mem["LiveObjects"]] >>

\* the URL ends with the path the event-count source fetches
EventCountEndpoint(url) ==
    LET path == <<"e", "v", "e", "n", "t", "/", "c", "o", "u", "n", "t">> IN
    /\ Len(url) >= Len(path)
    /\ SubSeq(url, Len(url) - Len(path) + 1, Len(url)) = path

(***************************************************************************)
(* C16 (reading-count mirroring): answered a well-formed integer, the      *)
(* reading-count source puts a dict with readings = the parsed integer,    *)
(* and with events = the same value if and only if the URL it was given    *)
(* is that of an event-count endpoint; otherwise the dict is exactly       *)
(* {readings}.                                                             *)
(***************************************************************************)
C16_ReadingsMirror ==
    \A i \in Indices :
        methods[i].get_data = "_get_core_throughput_readings" =>
            \A raw \in CountBodies :
                (~Falsy(raw) /\ ~IntOf(raw).raised) =>
                    UnitPuts(cfg, methods, i, raw) =
                        << IF EventCountEndpoint(methods[i].url)
                           THEN SetItem(SetItem(EmptyDict, "readings", IntOf(raw).value),
                                        "events", IntOf(raw).value)
                           ELSE SetItem(EmptyDict, "readings", IntOf(raw).value) >>

\* the event-count, device-list and metrics entries are switched on; in
\* this call event/count answered 42, the device list three elements, and
\* every metrics fetch failed
ExampleAnswers ==
    /\ \A i \in Indices :
          methods[i].get_data \in {"_get_core_throughput_events", "_get_device_info",
                                   "_get_metrics_data"} => i \in Launched
    /\ \A i \in Launched :
          /\ methods[i].get_data = "_get_core_throughput_events" =>
                resp[i] = TextRaw(<<"4", "2">>)
          /\ methods[i].get_data = "_get_device_info" => resp[i] = ArrayRaw(3)
          /\ methods[i].get_data = "_get_metrics_data" => resp[i] = NoneRaw

\* the reading-count fetch of this call failed
ReadingsDown ==
    \A i \in Launched :
        methods[i].get_data = "_get_core_throughput_readings" => resp[i] = NoneRaw

C17_SingleSharedStructure ==
    [][/\ cfg' = cfg
       /\ methods' = methods
       /\ (\E i \in Indices : unit[i] = "started" /\ unit'[i] # "started") =>
              /\ result' = result
              /\ threads' = threads
              /\ pc' = pc
              /\ \E i \in Indices :
                    /\ unit[i] = "started"
                    /\ queue' = append_puts(queue, i, UnitPuts(cfg, methods, i, resp'[i]))
       /\ result' # result =>
              \/ pc = "get" /\ pc' = "join" /\ result' = DictUpdate(result, Head(queue).frag)
              \/ pc \in {"idle", "returned"} /\ result' = EmptyDict
       /\ queue' # queue =>
              \/ \E i \in Indices :
                    /\ unit[i] = "started"
                    /\ Len(queue') > Len(queue)
                    /\ SubSeq(queue', 1, Len(queue)) = queue
                    /\ \A k \in (Len(queue) + 1)..Len(queue') : queue'[k].src = i
              \/ pc = "get" /\ queue' = Tail(queue)
              \/ pc \in {"idle", "returned"} /\ queue' = << >>]_vars

\* _get_data has merged a dict, another waits on the queue, and a thread is
\* still at work
C17_Witness ==
    /\ pc = "get"
    /\ result # EmptyDict
    /\ queue # << >>
    /\ \E i \in Indices : unit[i] = "started"
    /\ \E i \in Indices : merged[i] = 1

\* f[1] + ... + f[n]
RECURSIVE Total(_, _)
Total(f, n) == IF n = 0 THEN 0 ELSE f[n] + Total(f, n - 1)

(***************************************************************************)
(* C18 (the dequeue never blocks): whenever _get_data is at queue.get(),   *)
(* after joining a thread, the queue holds at least one dict; at all times *)
(* the dicts merged so far plus the dicts on the queue are as many as the  *)
(* threads that have reported.  (The dict taken after joining a thread can *)
(* be another thread's: see the witness.)                                  *)
(***************************************************************************)
C18_DequeueNeverBlocks ==
    /\ pc = "get" => queue # << >>
    /\ Total(merged, MethodCount) + Len(queue)
          = Cardinality({i \in Indices : puts[i] > 0})
    /\ Total(merged, MethodCount) + Len(queue) = Total(puts, MethodCount)

\* _get_data has joined a thread and the dict at the head of the queue is
\* another thread's
C18_Witness ==
    /\ pc = "get"
    /\ queue # << >>
    /\ joins[threads[jn]] = 1
    /\ Head(queue).src # threads[jn]

\* CHARTS: per chart, the dimension ids of its 'lines'
CHARTS ==
    [events_throughput |-> <<"events", "readings">>,
     events_count |-> <<"readings", "events">>,
     devices_number |-> <<"registered_devices">>,
     memory_alloc |-> <<"core_data_alloc", "core_metadata_alloc", "core_command_alloc",
                        "support_logging_alloc">>,
     memory_malloc |-> <<"core_data_malloc", "core_metadata_malloc", "core_command_malloc",
                         "support_logging_malloc">>,
     memory_frees |-> <<"core_data_frees", "core_metadata_frees", "core_command_frees",
                        "support_logging_frees">>,
     memory_liveObjects |-> <<"core_data_live_objects", "core_metadata_live_objects",
                              "core_command_live_objects",
                              "support_logging_live_objects">>]

\* the dimension ids the charts declare
Dimensions == UNION {{CHARTS[c][k] : k \in 1..Len(CHARTS[c])} : c \in DOMAIN CHARTS}

(***************************************************************************)
(* C19 (snapshot keys are chart dimensions): in every configuration and    *)
(* for every answer of the endpoints, each key of the value _get_data      *)
(* returns is a dimension id of CHARTS; so is each key of every dict a     *)
(* thread can put on the queue, and each key of `result`.                  *)
(***************************************************************************)
C19_KeysAreDimensions ==
    /\ \A k \in 1..Len(queue) : DOMAIN queue[k].frag \subseteq Dimensions
    /\ DOMAIN result \subseteq Dimensions
    /\ pc = "returned" => DOMAIN ret.value \subseteq Dimensions
    /\ pc = "idle" => \A i \in Indices : FieldNames(i) \subseteq Dimensions

\* a call has returned a snapshot with every dimension but the one no
\* routine assigns
C19_Witness ==
    /\ pc = "returned"
    /\ ret.kind = "dict"
    /\ DOMAIN ret.value = Dimensions \ {"core_command_live_objects"}

====
